---- MODULE Spec2Model ----
(***************************************************************************)
(* Model of mace_jax/tools/train.py: the train loop (train), its nested    *)
(* update step (update_fn) and the validation pass (evaluate).             *)
(*                                                                         *)
(* External collaborators are modelled by their contracts: the optimizer   *)
(* (gradient_transform.update / optax.apply_updates) yields a new          *)
(* parameter version per step, jax.jit is the identity on the function it  *)
(* wraps (the pytree registration of ExponentialMovingAverage, which only  *)
(* jit's tracing would use, is not part of the model), the logger and the  *)
(* checkpoint handler are call histories.                                  *)
(* Python's own semantics of the code in train.py (argument binding,       *)
(* attribute access on None, the order of statements) is modelled as is:   *)
(* an exception that train does not catch ends the run in pc = "aborted".  *)
(*                                                                         *)
(* Numbers that are rationals in the code are pairs <<num, den>>, den > 0. *)
(***************************************************************************)
EXTENDS Integers, Sequences, FiniteSets, TLC

VARIABLES
    \* ---- arguments of train (fixed during a run)
    start_epoch, max_num_epochs, patience, eval_interval, swa, max_grad_norm,
    train_len,        \* len(train_loader): batches per epoch
    valid_seq,        \* average validation loss of the k-th evaluation pass
    \* ---- locals of train
    pc, epoch, batch_idx, params, optimizer_state, ema, num_updates,
    lowest_loss, patience_counter, swa_start, loss_fn,
    graph, loss, decay,
    \* ---- effects on collaborators
    log,              \* logger.log records
    info,             \* logging.info messages
    saves,            \* checkpoint_handler.save calls
    eval_calls,       \* evaluate(...) calls made by train
    swa_updates,      \* swa.model.update_parameters calls
    swa_sched_steps,  \* swa.scheduler.step calls
    error,            \* the uncaught exception, if any
    \* ---- locals of evaluate
    data_loader, e_i, total_loss, delta_es_list, avg_loss, aux

cfgVars  == <<start_epoch, max_num_epochs, patience, eval_interval, swa,
              max_grad_norm, train_len, valid_seq>>
loopVars == <<pc, epoch, batch_idx, params, optimizer_state, ema, num_updates,
              lowest_loss, patience_counter, swa_start, loss_fn, graph, loss,
              decay>>
effVars  == <<log, info, saves, eval_calls, swa_updates, swa_sched_steps, error>>
evalVars == <<data_loader, e_i, total_loss, delta_es_list, avg_loss, aux>>
vars     == <<cfgVars, loopVars, effVars, evalVars>>

----------------------------------------------------------------------------
(* Bounds of the model *)

MaxStartEpoch   == 2
MaxEpochs       == 4
MaxEvalInterval == 3
MaxSwaStart     == 2
MaxTrainBatches == 2
MaxReal         == 2   \* real graphs per padded batch
MaxPad          == 1   \* padding graphs per padded batch
MaxValBatches   == 3   \* batches of the loader handed to evaluate
MaxBatchSize    == 2   \* examples per validation batch
MaxUpdates      == 3   \* num_updates handed to a single update_fn call

PatienceValues  == {1, 2}
LossValues      == {1, 3}      \* per-graph loss of a real graph
PadLossValues   == {2}         \* what loss_fn yields on a padding graph
ValLossValues   == {0, 1, 4}   \* scalar loss of a validation batch
ValidSeqs       == {<<5, 4, 4, 4>>, <<2, 3, 1, 1>>}
TargetDecays    == {<<1, 20>>, <<1, 4>>, <<99, 100>>}

None    == [none |-> TRUE]   \* Python's None
Unset   == <<>>              \* a local not yet assigned
Inf     == 1000000           \* np.inf: above every loss of the model
GradNorms == {None, [value |-> 10]}

----------------------------------------------------------------------------
(* Rationals *)

FracLE(a, b) == a[1] * b[2] <= b[1] * a[2]
FracEq(a, b) == a[1] * b[2] = b[1] * a[2]
FracMin(a, b) == IF FracLE(a, b) THEN a ELSE b
FracMax(a, b) == IF FracLE(a, b) THEN b ELSE a

----------------------------------------------------------------------------
(* Padded graph batches: the real graphs first, then the padding graphs.   *)
(* A graph is [l, mask]: l is the per-graph value loss_fn yields for it,   *)
(* mask is its entry of jraph.get_graph_padding_mask.                      *)

RealGraphs == [l : LossValues, mask : {TRUE}]
PadGraphs  == [l : PadLossValues, mask : {FALSE}]

BatchesOf(r, p) ==
    { [i \in 1..(r + p) |-> IF i <= r THEN re[i] ELSE pa[i - r]] :
        re \in [1..r -> RealGraphs], pa \in [1..p -> PadGraphs] }

PaddedBatches == UNION { BatchesOf(r, p) : r \in 1..MaxReal, p \in 0..MaxPad }

get_batched_padded_graph_tuples == PaddedBatches

\* the batches the train_loader of a modelled run is made of: one without
\* and one with a padding graph
TrainLoaderBatches ==
    { <<[l |-> 1, mask |-> TRUE]>>,
      <<[l |-> 3, mask |-> TRUE], [l |-> 2, mask |-> FALSE]>> }

----------------------------------------------------------------------------
(* update_fn *)

RECURSIVE MaskedSum(_)
MaskedSum(g) ==
    IF g = <<>> THEN 0
    ELSE (IF Head(g).mask THEN Head(g).l ELSE 0) + MaskedSum(Tail(g))

\* jnp.sum in place of jnp.mean
LossReduceSum(g) == <<MaskedSum(g), 1>>

\* jnp.mean(loss_fn(graph, model(params, graph)) * mask)
LossReduce(g) == <<MaskedSum(g), Len(g)>>

\* max in place of min
EffectiveDecayMax(target, n) == FracMax(target, <<1 + n, 10 + n>>)

\* decay = min(ema.decay, (1 + num_updates) / (10 + num_updates))
EffectiveDecay(target, n) == FracMin(target, <<1 + n, 10 + n>>)

\* the shadow parameters: x * decay + y * (1 - decay), kept as a term
Mix(x, d, y) == <<"mix", x, d, y>>

update_fn(p, os, e, n, g) ==
    LET new_p == <<"p", p[2] + 1>>     \* optax.apply_updates(params, updates)
    IN  [ loss            |-> LossReduce(g),
          params          |-> new_p,
          optimizer_state |-> os + 1,  \* gradient_transform.update
          decay           |-> IF e # None THEN EffectiveDecay(e.decay, n)
                              ELSE Unset,
          ema             |-> IF e # None
                              THEN [ params |-> Mix(e.params,
                                                    EffectiveDecay(e.decay, n),
                                                    new_p),
                                     decay  |-> e.decay ]
                              ELSE None ]

----------------------------------------------------------------------------
(* train *)

Terminal == {"done", "aborted"}

EmaArgs == {None} \cup [params : {<<"p", 0>>}, decay : TargetDecays]
SwaArgs == {None} \cup [start : 0..MaxSwaStart]

InfoStart(mgn) ==
    (IF mgn # None THEN <<"Using gradient clipping">> ELSE <<>>)
        \o <<"Started training">>

InitEvalLocals ==
    /\ data_loader = <<>>
    /\ e_i = 0
    /\ total_loss = 0
    /\ delta_es_list = <<>>
    /\ avg_loss = Unset
    /\ aux = None

\* the state at the first statement of train
InitTrain ==
    /\ ema \in EmaArgs
    /\ pc = "for"
    /\ epoch = start_epoch - 1   \* range(start_epoch, ...) has yielded nothing
    /\ batch_idx = 0
    /\ params = <<"p", 0>>
    /\ optimizer_state = 0
    /\ num_updates = 0
    /\ lowest_loss = Inf
    /\ patience_counter = 0
    /\ swa_start = TRUE
    /\ loss_fn = "loss_fn"
    /\ graph = Unset
    /\ loss = Unset
    /\ decay = Unset
    /\ log = <<>>
    /\ info = InfoStart(max_grad_norm)
    /\ saves = <<>>
    /\ eval_calls = <<>>
    /\ swa_updates = 0
    /\ swa_sched_steps = 0
    /\ error = "none"

InitArgs ==
    /\ start_epoch \in 0..MaxStartEpoch
    /\ max_num_epochs \in 0..MaxEpochs
    /\ patience \in PatienceValues
    /\ eval_interval \in 1..MaxEvalInterval
    /\ swa \in SwaArgs
    /\ max_grad_norm \in GradNorms
    /\ train_len \in 0..MaxTrainBatches
    /\ valid_seq \in ValidSeqs

Init == InitArgs /\ InitTrain /\ InitEvalLocals

\* for epoch in range(start_epoch, max_num_epochs)
ForEpoch ==
    /\ pc = "for"
    /\ LET nxt == epoch + 1
       IN  IF nxt < max_num_epochs
           THEN /\ epoch' = nxt
                /\ batch_idx' = 0
                /\ pc' = "train"
                /\ info' = info
           ELSE /\ pc' = "done"
                /\ info' = Append(info, "Training complete")
                /\ UNCHANGED <<epoch, batch_idx>>
    /\ UNCHANGED <<cfgVars, evalVars, params, optimizer_state, ema, num_updates,
                   lowest_loss, patience_counter, swa_start, loss_fn, graph,
                   loss, decay, log, saves, eval_calls, swa_updates,
                   swa_sched_steps, error>>

\* the record tagged "eval" in place of "opt"
OptMetricsAsEval(e) == [mode |-> "eval", epoch |-> e]

\* opt_metrics, as logged: its mode and its epoch (loss and time are not kept)
OptMetrics(e) == [mode |-> "opt", epoch |-> e]

\* one iteration of "for batch in train_loader"
TrainBatch ==
    /\ pc = "train"
    /\ batch_idx < train_len
    /\ \E g \in TrainLoaderBatches :
         LET n == num_updates + 1
             r == update_fn(params, optimizer_state, ema, n, g)
         IN  /\ graph' = g
             /\ num_updates' = n
             /\ loss' = r.loss
             /\ params' = r.params
             /\ optimizer_state' = r.optimizer_state
             /\ ema' = r.ema
             /\ decay' = r.decay
    /\ log' = Append(log, OptMetrics(epoch))
    /\ batch_idx' = batch_idx + 1
    /\ UNCHANGED <<cfgVars, evalVars, pc, epoch, lowest_loss, patience_counter,
                   swa_start, loss_fn, info, saves, eval_calls, swa_updates,
                   swa_sched_steps, error>>

\* the keywords of the call at "valid_loss, eval_metrics = evaluate(...)"
EvaluateKeywords == {"model", "params", "loss_fn", "data_loader", "device"}

\* the parameters of "def evaluate(...)"
EvaluateParameters == {"model", "params", "loss_fn", "data_loader"}

\* params=params if ema is not None else ema.params
\* (evaluated before the call; None has no attribute params)
EvaluateParamsArg(e) ==
    IF e # None THEN [raises |-> "none", params |-> "live"]
    ELSE [raises |-> "AttributeError", params |-> "none"]

\* the call of evaluate from train: what it raises ("none": it returns)
EvaluateCall(e) ==
    IF EvaluateParamsArg(e).raises # "none" THEN EvaluateParamsArg(e).raises
    ELSE IF ~(EvaluateKeywords \subseteq EvaluateParameters) THEN "TypeError"
    ELSE "none"

\* the average loss the k-th evaluation pass of a run yields
ValidLoss(k) == valid_seq[IF k <= Len(valid_seq) THEN k ELSE Len(valid_seq)]

\* with ema.average_parameters(): the dataclass ExponentialMovingAverage
\* (params, decay) of train.py has no such method
AverageParameters(e) == "AttributeError"

\* if epoch % eval_interval == 0: the evaluation and its bookkeeping
\* (the logging.info summaries chosen by log_errors change no state)
Validate ==
    /\ pc = "train"
    /\ batch_idx = train_len
    /\ epoch % eval_interval = 0
    /\ LET raised     == EvaluateCall(ema)
           valid_loss == ValidLoss(Len(eval_calls) + 1)
       IN  /\ eval_calls' = Append(eval_calls,
                                   [ epoch    |-> epoch,
                                     params   |-> EvaluateParamsArg(ema).params,
                                     returned |-> raised = "none" ])
           /\ IF raised # "none"
              THEN /\ pc' = "aborted"
                   /\ error' = raised
                   /\ UNCHANGED <<log, info, saves, lowest_loss,
                                  patience_counter>>
              ELSE /\ log' = Append(log, [mode |-> "eval", epoch |-> epoch])
                   /\ IF valid_loss >= lowest_loss
                      THEN /\ patience_counter' = patience_counter + 1
                           /\ IF patience_counter' >= patience
                              THEN /\ pc' = "done"   \* break
                                   /\ info' = info \o <<"Stopping optimization",
                                                        "Training complete">>
                              ELSE /\ pc' = "swa"
                                   /\ info' = info
                           /\ UNCHANGED <<lowest_loss, saves, error>>
                      ELSE /\ lowest_loss' = valid_loss
                           /\ patience_counter' = 0
                           /\ info' = info
                           /\ IF ema # None
                              THEN /\ pc' = "aborted"
                                   /\ error' = AverageParameters(ema)
                                   /\ saves' = saves
                              ELSE /\ pc' = "swa"
                                   /\ error' = error
                                   /\ saves' = Append(saves,
                                         [ epochs |-> epoch,
                                           optimizer_state |-> optimizer_state ])
    /\ UNCHANGED <<cfgVars, evalVars, epoch, batch_idx, params, optimizer_state,
                   ema, num_updates, swa_start, loss_fn, graph, loss, decay,
                   swa_updates, swa_sched_steps>>

\* epoch % eval_interval != 0: no evaluation in this epoch
SkipValidate ==
    /\ pc = "train"
    /\ batch_idx = train_len
    /\ epoch % eval_interval # 0
    /\ pc' = "swa"
    /\ UNCHANGED <<cfgVars, evalVars, effVars, epoch, batch_idx, params,
                   optimizer_state, ema, num_updates, lowest_loss,
                   patience_counter, swa_start, loss_fn, graph, loss, decay>>

\* LR scheduler and SWA update, the end of the epoch's body
SwaStep ==
    /\ pc = "swa"
    /\ IF swa = None \/ epoch < swa.start
       THEN UNCHANGED <<swa_start, loss_fn, info, swa_updates, swa_sched_steps>>
       ELSE /\ info' = IF swa_start
                       THEN Append(info, "Changing loss based on SWA")
                       ELSE info
            /\ swa_start' = FALSE
            /\ loss_fn' = "swa.loss_fn"
            /\ swa_updates' = swa_updates + 1
            /\ swa_sched_steps' = swa_sched_steps + 1
    /\ pc' = "for"
    /\ UNCHANGED <<cfgVars, evalVars, epoch, batch_idx, params, optimizer_state,
                   ema, num_updates, lowest_loss, patience_counter, graph, loss,
                   decay, log, saves, eval_calls, error>>

Next == ForEpoch \/ TrainBatch \/ Validate \/ SkipValidate \/ SwaStep

Spec == Init /\ [][Next]_vars

----------------------------------------------------------------------------
(* update_fn on its own: one call on arbitrary arguments *)

FixedArgs ==
    /\ start_epoch = 0
    /\ max_num_epochs = 0
    /\ patience = 1
    /\ eval_interval = 1
    /\ swa = None
    /\ max_grad_norm = None
    /\ train_len = 0
    /\ valid_seq = <<5, 4, 4, 4>>

InitUpdate ==
    /\ FixedArgs
    /\ InitEvalLocals
    /\ ema \in EmaArgs
    /\ pc = "update_fn"
    /\ epoch = 0
    /\ batch_idx = 0
    /\ params = <<"p", 0>>
    /\ optimizer_state = 0
    /\ num_updates \in 0..MaxUpdates
    /\ lowest_loss = Inf
    /\ patience_counter = 0
    /\ swa_start = TRUE
    /\ loss_fn = "loss_fn"
    /\ graph \in get_batched_padded_graph_tuples
    /\ loss = Unset
    /\ decay = Unset
    /\ log = <<>>
    /\ info = <<>>
    /\ saves = <<>>
    /\ eval_calls = <<>>
    /\ swa_updates = 0
    /\ swa_sched_steps = 0
    /\ error = "none"

UpdateCall ==
    /\ pc = "update_fn"
    /\ LET r == update_fn(params, optimizer_state, ema, num_updates, graph)
       IN  /\ loss' = r.loss
           /\ params' = r.params
           /\ optimizer_state' = r.optimizer_state
           /\ ema' = r.ema
           /\ decay' = r.decay
    /\ pc' = "update_fn returned"
    /\ UNCHANGED <<cfgVars, evalVars, effVars, epoch, batch_idx, num_updates,
                   lowest_loss, patience_counter, swa_start, loss_fn, graph>>

NextUpdate == UpdateCall

SpecUpdate == InitUpdate /\ [][NextUpdate]_vars

----------------------------------------------------------------------------
(* evaluate on its own *)

\* a validation batch: its scalar loss and the number of examples it holds
ValBatches == [loss : ValLossValues, n : 1..MaxBatchSize]

DataLoaders == UNION { [1..k -> ValBatches] : k \in 0..MaxValBatches }

\* total_loss / number of examples, in place of len(data_loader)
RECURSIVE NumExamples(_)
NumExamples(dl) == IF dl = <<>> THEN 0 ELSE Head(dl).n + NumExamples(Tail(dl))

AvgLossPerExample(total, dl) == <<total, NumExamples(dl)>>

\* avg_loss = total_loss / len(data_loader)
AvgLoss(total, dl) == <<total, Len(dl)>>

InitEvaluate ==
    /\ FixedArgs
    /\ ema = None
    /\ pc = "evaluate"
    /\ epoch = 0
    /\ batch_idx = 0
    /\ params = <<"p", 0>>
    /\ optimizer_state = 0
    /\ num_updates = 0
    /\ lowest_loss = Inf
    /\ patience_counter = 0
    /\ swa_start = TRUE
    /\ loss_fn = "loss_fn"
    /\ graph = Unset
    /\ loss = Unset
    /\ decay = Unset
    /\ log = <<>>
    /\ info = <<>>
    /\ saves = <<>>
    /\ eval_calls = <<>>
    /\ swa_updates = 0
    /\ swa_sched_steps = 0
    /\ error = "none"
    /\ data_loader \in DataLoaders
    /\ e_i = 0
    /\ total_loss = 0
    /\ delta_es_list = <<>>
    /\ avg_loss = Unset
    /\ aux = None

\* one iteration of "for batch in data_loader"
EvalBatch ==
    /\ pc = "evaluate"
    /\ e_i < Len(data_loader)
    /\ LET batch == data_loader[e_i + 1]
       IN  /\ total_loss' = total_loss + batch.loss
           /\ delta_es_list' = Append(delta_es_list, batch.n)
    /\ e_i' = e_i + 1
    /\ UNCHANGED <<cfgVars, loopVars, effVars, data_loader, avg_loss, aux>>

\* the division guarded: an empty loader averages to 0/0 without raising
DivisionGuarded(dl) == FALSE

\* total_loss / len(data_loader) raises ZeroDivisionError on an empty loader
DivisionRaises(dl) == Len(dl) = 0

RECURSIVE Concatenate(_)
Concatenate(lst) == IF lst = <<>> THEN 0 ELSE Head(lst) + Concatenate(Tail(lst))

\* after the loop: the average, the concatenations, the metrics dictionary
\* (the error statistics are reductions of utils over the concatenated arrays;
\* the dictionary keeps their length)
EvalReturn ==
    /\ pc = "evaluate"
    /\ e_i = Len(data_loader)
    /\ IF DivisionRaises(data_loader)
       THEN /\ pc' = "aborted"
            /\ error' = "ZeroDivisionError"
            /\ UNCHANGED <<avg_loss, aux>>
       ELSE /\ avg_loss' = AvgLoss(total_loss, data_loader)
            /\ aux' = [ loss |-> avg_loss', n |-> Concatenate(delta_es_list) ]
            /\ pc' = "evaluate returned"
            /\ error' = error
    /\ UNCHANGED <<cfgVars, epoch, batch_idx, params, optimizer_state, ema,
                   num_updates, lowest_loss, patience_counter, swa_start,
                   loss_fn, graph, loss, decay, log, info, saves, eval_calls,
                   swa_updates, swa_sched_steps, data_loader, e_i, total_loss,
                   delta_es_list>>

NextEvaluate == EvalBatch \/ EvalReturn

SpecEvaluate == InitEvaluate /\ [][NextEvaluate]_vars

----------------------------------------------------------------------------
(* Properties *)

RECURSIVE SumL(_)
SumL(g) == IF g = <<>> THEN 0 ELSE Head(g).l + SumL(Tail(g))

RealOf(g) == SelectSeq(g, LAMBDA x : x.mask)

AllReal(g) == \A i \in 1..Len(g) : g[i].mask

RECURSIVE SumLoss(_)
SumLoss(dl) == IF dl = <<>> THEN 0 ELSE Head(dl).loss + SumLoss(Tail(dl))

RECURSIVE Count(_, _)
Count(seq, m) ==
    IF seq = <<>> THEN 0
    ELSE (IF Head(seq) = m THEN 1 ELSE 0) + Count(Tail(seq), m)

\* the k-th evaluation of the run is strictly below every earlier one
Improved(k) == \A j \in 1..(k - 1) : ValidLoss(k) < ValidLoss(j)

\* consecutive non-improving evaluations up to and including the k-th
RECURSIVE NonImproving(_)
NonImproving(k) ==
    IF k = 0 THEN 0
    ELSE IF Improved(k) THEN 0
    ELSE NonImproving(k - 1) + 1

SavedAt(e) == \E i \in 1..Len(saves) : saves[i].epochs = e

EvaluatedAt(e) == \E k \in 1..Len(eval_calls) : eval_calls[k].epoch = e

\* C1: in every epoch with an evaluation a checkpoint is saved if and only
\* if that evaluation's loss is strictly below every earlier validation loss
\* of the run, and no checkpoint is saved in an epoch without an evaluation.
C1_SaveIffStrictlyImproved ==
    /\ \A k \in 1..Len(eval_calls) :
         SavedAt(eval_calls[k].epoch) <=> Improved(k)
    /\ \A i \in 1..Len(saves) : EvaluatedAt(saves[i].epochs)

\* C2: train stops exactly at the first evaluation at which the number of
\* consecutive non-improving evaluations reaches patience (losses 5,4,4,4
\* with patience 2: at the fourth), and nothing is evaluated after it.
C2_StopsWhenPatienceReached ==
    /\ \A k \in 1..Len(eval_calls) :
         k < Len(eval_calls) => NonImproving(k) < patience
    /\ (pc \in Terminal /\ epoch + 1 < max_num_epochs)
         => NonImproving(Len(eval_calls)) >= patience
    /\ ( /\ pc \in Terminal
         /\ valid_seq = <<5, 4, 4, 4>> /\ patience = 2
         /\ start_epoch = 0 /\ eval_interval = 1 /\ max_num_epochs >= 4 )
         => Len(eval_calls) = 4

\* C3: with an SWA container, a run that has executed an epoch >= swa.start
\* has made the TRAINING -> SWA_ACTIVE transition, logged exactly once, and
\* the transition is never logged twice.
C3_SwaTransitionOnce ==
    swa # None =>
      /\ Count(info, "Changing loss based on SWA") <= 1
      /\ (pc \in Terminal /\ epoch >= start_epoch /\ epoch >= swa.start)
           => /\ swa_start = FALSE
              /\ loss_fn = "swa.loss_fn"
              /\ Count(info, "Changing loss based on SWA") = 1

\* C4: the loss of an update step is the sum of the per-graph losses of the
\* non-padding graphs divided by the number of non-padding graphs.
C4_LossIsMeanOverRealGraphs ==
    pc = "update_fn returned"
      => FracEq(loss, <<SumL(RealOf(graph)), Len(RealOf(graph))>>)

\* C5: for a batch whose padding mask is all-true the loss of the update
\* step is the plain arithmetic mean of the per-graph losses.
C5_AllTrueMaskPlainMean ==
    (pc = "update_fn returned" /\ AllReal(graph))
      => FracEq(loss, <<SumL(graph), Len(graph)>>)

C5_Witness ==
    /\ pc = "update_fn returned"
    /\ AllReal(graph)
    /\ Len(graph) = 2
    /\ graph[1].l # graph[2].l
    /\ loss = <<4, 2>>

\* C6: in the first update step of a run the effective EMA decay is 1/10,
\* whatever the target decay.
C6_FirstDecayIsOneTenth ==
    (ema # None /\ num_updates = 1 /\ decay # Unset)
      => FracEq(decay, <<1, 10>>)

C8_EvaluateOnEmaOrLive ==
    \A k \in 1..Len(eval_calls) :
      /\ eval_calls[k].returned
      /\ eval_calls[k].params = (IF ema # None THEN "ema" ELSE "live")

\* C9: for a non-empty loader evaluate returns the sum of the per-batch
\* losses divided by the number of batches, whatever the batch sizes, and
\* stores the same value under "loss" of the metrics.
C9_AverageOverBatches ==
    pc = "evaluate returned"
      => /\ FracEq(avg_loss, <<SumLoss(data_loader), Len(data_loader)>>)
         /\ aux # None
         /\ aux.loss = avg_loss

C9_Witness ==
    /\ pc = "evaluate returned"
    /\ Len(data_loader) = 2
    /\ data_loader[1].n # data_loader[2].n
    /\ data_loader[1].loss # data_loader[2].loss
    /\ avg_loss = <<5, 2>>

\* C10: a run ends only because the patience limit is reached at an
\* evaluation or because the epochs up to max_num_epochs are exhausted.
C10_EndsByPatienceOrExhaustion ==
    pc \in Terminal
      => /\ pc = "done"
         /\ \/ Count(info, "Stopping optimization") = 1
            \/ epoch + 1 >= max_num_epochs

\* the "eval" records logged for epoch e
EvalRecords(e) == Count(log, [mode |-> "eval", epoch |-> e])

\* C11: Evaluate is run in an epoch iff epoch mod eval_interval = 0, at most
\* once per epoch and only after all of the epoch's training batches, and
\* each evaluation logs exactly one "eval" record tagged with its epoch.
C11_EvaluateEveryInterval ==
    /\ \A k \in 1..Len(eval_calls) :
         /\ eval_calls[k].epoch % eval_interval = 0
         /\ \A j \in 1..Len(eval_calls) :
              eval_calls[j].epoch = eval_calls[k].epoch => j = k
         /\ EvalRecords(eval_calls[k].epoch) = 1
    /\ (pc \in {"swa", "for"} /\ epoch >= start_epoch
          /\ epoch % eval_interval = 0) => EvaluatedAt(epoch)
    /\ \A i \in 1..Len(log) :
         log[i].mode = "eval" => EvaluatedAt(log[i].epoch)

\* C12: with an SWA container, an update step performed in an epoch with
\* epoch >= swa.start uses the SWA loss function, and one performed in an
\* epoch with epoch < swa.start uses the ordinary loss function.
C12_SwaLossFromStartEpoch ==
    (swa # None /\ pc = "train" /\ batch_idx > 0)
      => (loss_fn = "swa.loss_fn" <=> epoch >= swa.start)

\* epochs of start_epoch..e that are >= swa.start
SwaEpochs(e) ==
    IF swa = None THEN 0
    ELSE Cardinality({ x \in start_epoch..e : x >= swa.start })

\* C13: once the body of an epoch has ended, also by the patience limit or
\* otherwise, the SWA accumulator has been updated and the SWA scheduler
\* stepped exactly once for every executed epoch with epoch >= swa.start,
\* and never without an SWA container.
C13_SwaUpdatePerEpoch ==
    (pc \in {"for", "done", "aborted"})
      => /\ swa_updates = SwaEpochs(epoch)
         /\ swa_sched_steps = SwaEpochs(epoch)

\* C14: with EMA enabled, an evaluation that strictly improves the
\* validation loss saves a checkpoint of its epoch and the save completes
\* without an error.
C14_EmaCheckpointSaved ==
    ema # None =>
      \A k \in 1..Len(eval_calls) :
        Improved(k) => (SavedAt(eval_calls[k].epoch) /\ error = "none")

\* the "opt" records of a log
RECURSIVE OptRecords(_)
OptRecords(lg) ==
    IF lg = <<>> THEN 0
    ELSE (IF Head(lg).mode = "opt" THEN 1 ELSE 0) + OptRecords(Tail(lg))

RECURSIVE LowestOf(_)
LowestOf(k) ==
    IF k = 0 THEN Inf
    ELSE IF ValidLoss(k) < LowestOf(k - 1) THEN ValidLoss(k)
    ELSE LowestOf(k - 1)

\* C18: lowest_loss is the minimum of the validation losses evaluated so
\* far, patience_counter the number of evaluations since the last strict
\* improvement, and 0 <= patience_counter < patience when an epoch starts.
C18_BestLossAndPatience ==
    /\ lowest_loss = LowestOf(Len(eval_calls))
    /\ patience_counter = NonImproving(Len(eval_calls))
    /\ (pc = "train" /\ batch_idx = 0)
         => (0 <= patience_counter /\ patience_counter < patience)

\* the first evaluation of the run with the lowest validation loss
BestEval ==
    CHOOSE k \in 1..Len(eval_calls) :
      /\ ValidLoss(k) = LowestOf(Len(eval_calls))
      /\ \A j \in 1..(k - 1) : ValidLoss(j) > ValidLoss(k)

\* C19: the saved checkpoints have strictly increasing epoch tags, each the
\* epoch of an evaluation, and when the run has stopped after at least one
\* evaluation the last one saved is that of the earliest evaluation with
\* the lowest validation loss.
C19_LastCheckpointIsBest ==
    /\ \A i \in 1..Len(saves) :
         /\ EvaluatedAt(saves[i].epochs)
         /\ i > 1 => saves[i - 1].epochs < saves[i].epochs
    /\ (pc \in Terminal /\ Len(eval_calls) >= 1)
         => /\ Len(saves) >= 1
            /\ saves[Len(saves)].epochs = eval_calls[BestEval].epoch

====
